---- MODULE Spec2Model ----
(***************************************************************************)
(* Model of the lengolf_sales historical sync: the date-range validator,   *)
(* the month chunker (utils.py), the truncate-and-replace staging load     *)
(* (supabase_client.py) and the chunk loop of sync_historical_data         *)
(* (services.py).                                                          *)
(***************************************************************************)
EXTENDS Integers, Sequences, FiniteSets, TLC

VARIABLES
    \* the position of the operation under way
    pc,
    \* validate_date_range: arguments, the clock, the returned triple
    vStart, vEnd, vToday, vResult,
    \* split_date_range_by_month: arguments and the returned list
    sStart, sEnd, sResult,
    \* the database: pos.lengolf_sales_staging, the final sales table, the
    \* next row id, and the sequence of calls received so far
    staging, final, next_id, calls,
    \* insert_staging_data / process_staging_to_final: who called, the
    \* arguments, the locals, the value returned or the exception raised
    caller, df, batch_id,
    bulk_records, start_date, end_date, total_inserted, fb_i, ret, exc,
    \* sync_historical_data: the arguments, the validated range, the chunks
    \* and the index of the one under way, the result being built, the
    \* return value of the last load
    hStart, hEnd, validated, monthly_chunks, chunk_i, overall_results,
    records_inserted,
    \* the batch record of the run and every update_sync_log call made
    sync_log, log_updates,
    \* a second run that shares the database: its position, arguments and
    \* locals while the first run is the one taking steps
    other

valVars == <<vStart, vEnd, vToday, vResult>>
splitVars == <<sStart, sEnd, sResult>>
dbVars == <<staging, final, next_id, calls>>
argVars == <<caller, df, batch_id>>
localVars == <<bulk_records, start_date, end_date, total_inserted, fb_i>>
loadVars == <<argVars, localVars, ret, exc>>
histVars == <<hStart, hEnd, validated, monthly_chunks, chunk_i,
              overall_results, records_inserted, sync_log, log_updates>>
vars == <<pc, valVars, splitVars, dbVars, loadVars, histVars, other>>

None == "none"

(***************************************************************************)
(* Bounds of the model.                                                    *)
(***************************************************************************)
\* input dates run from the year before the earliest allowed date to
\* YearSpan years after it
YearSpan == 1

(***************************************************************************)
(* Calendar dates: datetime.date as <<year, month, day>>.                  *)
(***************************************************************************)
IsLeap(y) == (y % 4 = 0 /\ y % 100 # 0) \/ (y % 400 = 0)

DaysInMonth(y, m) ==
    IF m = 2 THEN (IF IsLeap(y) THEN 29 ELSE 28)
    ELSE IF m \in {4, 6, 9, 11} THEN 30 ELSE 31

\* date.__lt__ / __le__ / __gt__
DateLT(a, b) ==
    \/ a[1] < b[1]
    \/ a[1] = b[1] /\ a[2] < b[2]
    \/ a[1] = b[1] /\ a[2] = b[2] /\ a[3] < b[3]

DateLE(a, b) == a = b \/ DateLT(a, b)

DateGT(a, b) == DateLT(b, a)

DateMin(a, b) == IF DateLE(a, b) THEN a ELSE b

\* d + relativedelta(days=1)
PlusOneDay(d) ==
    IF d[3] < DaysInMonth(d[1], d[2]) THEN <<d[1], d[2], d[3] + 1>>
    ELSE IF d[2] < 12 THEN <<d[1], d[2] + 1, 1>>
    ELSE <<d[1] + 1, 1, 1>>

\* d - relativedelta(days=1)
MinusOneDay(d) ==
    IF d[3] > 1 THEN <<d[1], d[2], d[3] - 1>>
    ELSE IF d[2] > 1 THEN <<d[1], d[2] - 1, DaysInMonth(d[1], d[2] - 1)>>
    ELSE <<d[1] - 1, 12, 31>>

\* d + relativedelta(months=n): the day is clipped to the target month
PlusMonths(d, n) ==
    LET idx == d[1] * 12 + (d[2] - 1) + n
        y == idx \div 12
        m == (idx % 12) + 1
        last == DaysInMonth(y, m)
    IN  <<y, m, IF d[3] > last THEN last ELSE d[3]>>

\* date.toordinal(): days since 0001-01-01, counted from 1
RECURSIVE DaysBeforeMonth(_, _)
DaysBeforeMonth(y, m) ==
    IF m = 1 THEN 0 ELSE DaysBeforeMonth(y, m - 1) + DaysInMonth(y, m - 1)

ToOrdinal(d) ==
    LET y == d[1] - 1
    IN  y * 365 + (y \div 4) - (y \div 100) + (y \div 400)
        + DaysBeforeMonth(d[1], d[2]) + d[3]

IsDate(d) ==
    /\ d[2] \in 1..12
    /\ d[3] \in 1..DaysInMonth(d[1], d[2])

\* (b.year - a.year) * 12 + (b.month - a.month)
MonthsDiff(a, b) == (b[1] - a[1]) * 12 + (b[2] - a[2])

(***************************************************************************)
(* utils.get_last_day_of_month                                             *)
(***************************************************************************)
\* a slip: the first day of the next month, the day never taken off
get_last_day_of_month_NoMinus(year, month) ==
    IF month = 12 THEN <<year + 1, 1, 1>> ELSE <<year, month + 1, 1>>

get_last_day_of_month(year, month) ==
    IF month = 12 THEN MinusOneDay(<<year + 1, 1, 1>>)
    ELSE MinusOneDay(<<year, month + 1, 1>>)

(***************************************************************************)
(* utils.split_date_range_by_month: the while loop, one chunk per turn.    *)
(***************************************************************************)
\* a slip: the chunk runs to the end of its month, past the end date
ChunkEnd_NoClip(current, range_end) ==
    get_last_day_of_month(current[1], current[2])

\* lines 63-67: the end of the chunk that starts at current
ChunkEnd(current, range_end) ==
    LET month_end == get_last_day_of_month(current[1], current[2])
    IN  DateMin(month_end, range_end)

RECURSIVE SplitLoop(_, _, _)
SplitLoop(current, range_end, chunks) ==
    IF DateLE(current, range_end)
    THEN LET chunk_end == ChunkEnd(current, range_end)
         IN  SplitLoop(PlusOneDay(chunk_end), range_end,
                       Append(chunks, <<current, chunk_end>>))
    ELSE chunks

split_date_range_by_month(range_start, range_end) ==
    SplitLoop(range_start, range_end, <<>>)

(***************************************************************************)
(* utils.validate_date_range, with the clock (get_current_time().date())   *)
(* as the argument today.  Each rule reads the values the rules before it  *)
(* left.                                                                   *)
(***************************************************************************)
max_months == 12

earliest_allowed == <<2024, 3, 1>>

WFutureStart == "Start date adjusted to today (cannot sync future dates)"
WFutureEnd == "End date adjusted to today (cannot sync future dates)"
WLimited == "Date range limited to 12 months to prevent timeout"
WEarliest == "Start date adjusted to March 1, 2024 (earliest available data)"
WSwapped == "Start and end dates were swapped"

\* lines 92-94
RuleFutureStart(r, today) ==
    IF DateGT(r.start, today)
    THEN [r EXCEPT !.start = today, !.warnings = Append(@, WFutureStart)]
    ELSE r

\* a slip: a future end date let through
RuleFutureEnd_Skipped(r, today) == r

\* lines 96-98
RuleFutureEnd(r, today) ==
    IF DateGT(r.end, today)
    THEN [r EXCEPT !.end = today, !.warnings = Append(@, WFutureEnd)]
    ELSE r

\* lines 101-105
RuleMonthLimit(r) ==
    IF MonthsDiff(r.start, r.end) > max_months
    THEN [r EXCEPT !.end = PlusMonths(r.start, max_months),
                   !.warnings = Append(@, WLimited)]
    ELSE r

\* lines 108-111
RuleEarliest(r) ==
    IF DateLT(r.start, earliest_allowed)
    THEN [r EXCEPT !.start = earliest_allowed,
                   !.warnings = Append(@, WEarliest)]
    ELSE r

\* a slip: the final swap left out
RuleSwap_Skipped(r) == r

\* lines 114-116
RuleSwap(r) ==
    IF DateGT(r.start, r.end)
    THEN [r EXCEPT !.start = r.end, !.end = r.start,
                   !.warnings = Append(@, WSwapped)]
    ELSE r

validate_date_range(range_start, range_end, today) ==
    RuleSwap(RuleEarliest(RuleMonthLimit(RuleFutureEnd(RuleFutureStart(
        [start |-> range_start, end |-> range_end, warnings |-> <<>>],
        today), today))))

(***************************************************************************)
(* Input domains.                                                          *)
(***************************************************************************)
Years == (earliest_allowed[1] - 1) .. (earliest_allowed[1] + YearSpan)

DaySamples == {1, 15, 28, 29, 30, 31}

InputDates ==
    {dt \in Years \X (1..12) \X DaySamples : dt[3] <= DaysInMonth(dt[1], dt[2])}

\* the clock when the service runs: on or after the earliest allowed date
Todays == {<<2024, 3, 1>>, <<2025, 2, 28>>, <<2025, 6, 10>>}

\* a clock before the earliest allowed date, for the claims made of every today
EarlyTodays == {<<2024, 1, 15>>}

\* the variables of the operations a specification does not exercise
DbIdle ==
    /\ staging = {} /\ final = {} /\ next_id = 1 /\ calls = <<>>

HistIdle ==
    /\ hStart = None /\ hEnd = None /\ validated = None
    /\ monthly_chunks = <<>> /\ chunk_i = 0 /\ overall_results = None
    /\ records_inserted = 0 /\ sync_log = None /\ log_updates = <<>>

LoadIdle ==
    /\ caller = None /\ df = None /\ batch_id = None
    /\ bulk_records = <<>> /\ start_date = None /\ end_date = None
    /\ total_inserted = 0 /\ fb_i = 0 /\ ret = None /\ exc = None

(***************************************************************************)
(* validate_date_range applied to one input.                               *)
(***************************************************************************)
ValidateCall ==
    /\ pc = "validate"
    /\ pc' = "validated"
    /\ vResult' = validate_date_range(vStart, vEnd, vToday)
    /\ UNCHANGED <<vStart, vEnd, vToday, splitVars, dbVars, loadVars, histVars>>
    /\ UNCHANGED other

InitValidateWith(todays) ==
    /\ vStart \in InputDates
    /\ vEnd \in InputDates
    /\ vToday \in todays
    /\ vResult = None
    /\ pc = "validate"
    /\ sStart = None /\ sEnd = None /\ sResult = None
    /\ DbIdle /\ LoadIdle /\ HistIdle
    /\ other = None

InitValidate == InitValidateWith(Todays)

InitValidateAnyToday == InitValidateWith(Todays \cup EarlyTodays)

NextValidate == ValidateCall

SpecValidate == InitValidate /\ [][NextValidate]_vars

SpecValidateAnyToday == InitValidateAnyToday /\ [][NextValidate]_vars

(***************************************************************************)
(* split_date_range_by_month applied to one range with start <= end.       *)
(***************************************************************************)
SplitCall ==
    /\ pc = "split"
    /\ pc' = "split_done"
    /\ sResult' = split_date_range_by_month(sStart, sEnd)
    /\ UNCHANGED <<sStart, sEnd, valVars, dbVars, loadVars, histVars>>
    /\ UNCHANGED other

InitSplit ==
    /\ sStart \in InputDates
    /\ sEnd \in {e \in InputDates : DateLE(sStart, e)}
    /\ sResult = None
    /\ pc = "split"
    /\ vStart = None /\ vEnd = None /\ vToday = None /\ vResult = None
    /\ DbIdle /\ LoadIdle /\ HistIdle
    /\ other = None

NextSplit == SplitCall

SpecSplit == InitSplit /\ [][NextSplit]_vars

(***************************************************************************)
(* Data frames.  A row of a frame carries the text of its 'date' column:   *)
(* an ISO date, nothing (NaN, '' or 'nan'), or text that is not a date.    *)
(* The receipt number tells the rows of a frame apart.                     *)
(***************************************************************************)
NoDay == <<0, 0, 0>>

IsoDate(d) == [kind |-> "iso", day |-> d]
EmptyDate == [kind |-> "empty", day |-> NoDay]
TextDate == [kind |-> "text", day |-> NoDay]

\* a frame with a 'date' column holding the given texts
Frame(dates) ==
    [date_col |-> TRUE,
     rows |-> [k \in 1..Len(dates) |-> [date |-> dates[k], receipt |-> k]]]

\* a frame without a 'date' column: row.get('date', '') is ''
FrameWithoutDates(n) ==
    [date_col |-> FALSE,
     rows |-> [k \in 1..n |-> [date |-> EmptyDate, receipt |-> k]]]

SeqsUpTo(S, n) == UNION {[1..k -> S] : k \in 0..n}

(***************************************************************************)
(* The database functions called over RPC.  Their SQL is not part of the   *)
(* sources; they follow the persistence contract: delete the rows dated    *)
(* inside the range, copy the staging rows of a batch to the final table.  *)
(***************************************************************************)
InRange(row, lo, hi) ==
    /\ row.date.kind = "iso"
    /\ DateLE(lo, row.date.day)
    /\ DateLE(row.date.day, hi)

\* truncate_staging_data_for_date_range / truncate_sales_data_for_date_range
RowsLeftByTruncate(table, lo, hi) == {row \in table : ~InRange(row, lo, hi)}

\* process_staging_batch_v2: the rows it adds to the final table, one for
\* each staging row of the batch, with new ids given in the order of the
\* staging ids
RowsPromoted(stage, batch, first_id) ==
    LET src == {row \in stage : row.import_batch_id = batch}
    IN  {[id |-> first_id + Cardinality({earlier \in src : earlier.id < row.id}),
          import_batch_id |-> batch,
          date |-> row.date,
          receipt |-> row.receipt] : row \in src}

\* (a slip: the insert reports success and stores no row)
RowsInserted_Nothing(records, first_id) == {}

\* table.insert(records): the rows added to the staging table
RowsInserted(records, first_id) ==
    {[id |-> first_id + k - 1,
      import_batch_id |-> records[k].import_batch_id,
      date |-> records[k].date,
      receipt |-> records[k].receipt] : k \in 1..Len(records)}

(***************************************************************************)
(* SupabaseClient.insert_staging_data: preparation (lines 79-192).         *)
(***************************************************************************)
\* line 96: rows whose date is not NaN, '' or 'nan'
HasDateText(row) == row.date.kind # "empty"

DfClean(frame) == SelectSeq(frame.rows, HasDateText)

\* line 102: pd.to_datetime(..., errors='coerce').dropna()
IsParsed(row) == row.date.kind = "iso"

DaysOf(rows) == [k \in 1..Len(rows) |-> rows[k].date.day]

DfDates(clean) == DaysOf(SelectSeq(clean, IsParsed))

\* Series.min() / Series.max() of a series that is not empty
SeriesValues(days) == {days[k] : k \in 1..Len(days)}

SeriesMin(days) ==
    CHOOSE d \in SeriesValues(days) :
        \A e \in SeriesValues(days) : DateLE(d, e)

SeriesMax(days) ==
    CHOOSE d \in SeriesValues(days) :
        \A e \in SeriesValues(days) : DateLE(e, d)

\* a slip: the range widened to whole calendar months
LoadSpan_WholeMonths(days) ==
    LET lo == SeriesMin(days)
        hi == SeriesMax(days)
    IN  [start |-> <<lo[1], lo[2], 1>>,
         end |-> get_last_day_of_month(hi[1], hi[2])]

\* lines 107-108: the range handed to both truncate calls
LoadSpan(days) == [start |-> SeriesMin(days), end |-> SeriesMax(days)]

\* a slip: the check for an empty series of parsed dates left out
NoParsedDates_Unchecked(days) == FALSE

\* line 103: df_dates.empty
NoParsedDates(days) == days = <<>>

\* lines 118-185: one record per row of df_clean; an ISO date does not
\* match '%d/%m/%Y %H:%M:%S', so the date text is kept as it is
BulkRecords(clean, batch) ==
    [k \in 1..Len(clean) |->
        [import_batch_id |-> batch,
         date |-> clean[k].date,
         receipt |-> clean[k].receipt]]

\* what the preparation ends in: "return" (return 0 before any call),
\* "raise" (min() of an empty series is NaT, and NaT.date() raises) or
\* "truncate" (go on to the truncate calls)
PrepareOutcome(frame, batch) ==
    IF Len(frame.rows) = 0 THEN [kind |-> "return"]              \* 80-82
    ELSE IF ~frame.date_col THEN [kind |-> "return"]             \* 89-91
    ELSE LET clean == DfClean(frame)
             days == DfDates(clean)
             records == BulkRecords(clean, batch)
         IN  IF clean = <<>> THEN [kind |-> "return"]             \* 97-99
             ELSE IF NoParsedDates(days) THEN [kind |-> "return"] \* 103-105
             ELSE IF days = <<>> THEN [kind |-> "raise"]          \* 107
             ELSE IF records = <<>> THEN [kind |-> "return"]      \* 188-190
             ELSE [kind |-> "truncate",
                   span |-> LoadSpan(days),
                   records |-> records]

\* a slip: the delete steps left out
AfterPrepare_NoDelete == "bulk_insert"

\* line 194: with the records prepared, the staging truncate comes first
AfterPrepare == "truncate_staging"

LoadPrepare ==
    /\ pc = "load"
    /\ LET out == PrepareOutcome(df, batch_id)
       IN  CASE out.kind = "return" ->
                  /\ pc' = "load_returned"
                  /\ ret' = 0
                  /\ UNCHANGED <<localVars, exc>>
             [] out.kind = "raise" ->
                  /\ pc' = "load_raised"
                  /\ exc' = "NaTType does not support date"
                  /\ UNCHANGED <<localVars, ret>>
             [] out.kind = "truncate" ->
                  /\ pc' = AfterPrepare
                  /\ start_date' = out.span.start
                  /\ end_date' = out.span.end
                  /\ bulk_records' = out.records
                  /\ UNCHANGED <<total_inserted, fb_i, ret, exc>>
    /\ UNCHANGED <<valVars, splitVars, histVars, dbVars, argVars>>
    /\ UNCHANGED other

(***************************************************************************)
(* insert_staging_data: the two truncate calls (lines 194-213).  A call    *)
(* that raises leaves the table as it was and ends the load at line 247.   *)
(***************************************************************************)
\* a slip: the error of a truncate call ignored and the insert made
AfterTruncateRaised_Ignored == "bulk_insert"

\* line 247: an error of a truncate call ends the load
AfterTruncateRaised == "load_raised"

\* the record of a call: what was called, with what, and how it ended
TruncateCall(op, result) ==
    [op |-> op, by |-> batch_id, start |-> start_date, end |-> end_date,
     result |-> result]

\* an insert is recorded with the receipts of its first and last record
InsertCall(records, result) ==
    [op |-> "insert", by |-> batch_id, n |-> Len(records),
     first |-> records[1].receipt, last |-> records[Len(records)].receipt,
     result |-> result]

TruncateStaging ==
    /\ pc = "truncate_staging"
    /\ \/ /\ staging' = RowsLeftByTruncate(staging, start_date, end_date)
          /\ calls' = Append(calls, TruncateCall("truncate_staging", "ok"))
          /\ pc' = "truncate_final"
          /\ UNCHANGED exc
       \/ /\ calls' = Append(calls, TruncateCall("truncate_staging", "raised"))
          /\ pc' = AfterTruncateRaised
          /\ exc' = "truncate_staging_data_for_date_range failed"
          /\ UNCHANGED staging
    /\ UNCHANGED <<valVars, splitVars, histVars, final, next_id, argVars, localVars, ret>>
    /\ UNCHANGED other

TruncateFinal ==
    /\ pc = "truncate_final"
    /\ \/ /\ final' = RowsLeftByTruncate(final, start_date, end_date)
          /\ calls' = Append(calls, TruncateCall("truncate_final", "ok"))
          /\ pc' = "bulk_insert"
          /\ UNCHANGED exc
       \/ /\ calls' = Append(calls, TruncateCall("truncate_final", "raised"))
          /\ pc' = AfterTruncateRaised
          /\ exc' = "truncate_sales_data_for_date_range failed"
          /\ UNCHANGED final
    /\ UNCHANGED <<valVars, splitVars, histVars, staging, next_id, argVars, localVars, ret>>
    /\ UNCHANGED other

(***************************************************************************)
(* insert_staging_data: the bulk insert and its fallback (lines 215-245).  *)
(***************************************************************************)
batch_size == 50

\* a slip: the batch not cut at batch_size records
Slice_WholeRest(records, i) == SubSeq(records, i + 1, Len(records))

\* bulk_records[i:i + batch_size], i counted from 0
Slice(records, i) ==
    SubSeq(records, i + 1,
           IF i + batch_size < Len(records) THEN i + batch_size
           ELSE Len(records))

BulkInsert ==
    /\ pc = "bulk_insert"
    /\ \/ /\ staging' = staging \cup RowsInserted(bulk_records, next_id)
          /\ calls' = Append(calls, InsertCall(bulk_records, "ok"))
          /\ next_id' = next_id + Len(bulk_records)
          /\ total_inserted' = Len(bulk_records)
          /\ ret' = Len(bulk_records)
          /\ pc' = "load_returned"
          /\ UNCHANGED fb_i
       \/ /\ calls' = Append(calls, InsertCall(bulk_records, "raised"))
          /\ pc' = "fallback"
          /\ total_inserted' = 0
          /\ fb_i' = 0
          /\ UNCHANGED <<staging, next_id, ret>>
    /\ UNCHANGED <<valVars, splitVars, histVars, final, argVars,
                   bulk_records, start_date, end_date, exc>>
    /\ UNCHANGED other

\* one turn of the loop at line 231
FallbackBatch ==
    /\ pc = "fallback"
    /\ fb_i < Len(bulk_records)
    /\ LET batch == Slice(bulk_records, fb_i)
       IN  \/ /\ staging' = staging \cup RowsInserted(batch, next_id)
              /\ calls' = Append(calls, InsertCall(batch, "ok"))
              /\ next_id' = next_id + Len(batch)
              /\ total_inserted' = total_inserted + Len(batch)
           \/ /\ calls' = Append(calls, InsertCall(batch, "raised"))
              /\ UNCHANGED <<staging, next_id, total_inserted>>
    /\ fb_i' = fb_i + batch_size
    /\ UNCHANGED <<pc, valVars, splitVars, histVars, final, argVars,
                   bulk_records, start_date, end_date, ret, exc>>
    /\ UNCHANGED other

\* the loop is over: line 245
FallbackDone ==
    /\ pc = "fallback"
    /\ fb_i >= Len(bulk_records)
    /\ pc' = "load_returned"
    /\ ret' = total_inserted
    /\ UNCHANGED <<valVars, splitVars, histVars, dbVars, argVars, localVars, exc>>
    /\ UNCHANGED other

LoadStep ==
    \/ LoadPrepare
    \/ TruncateStaging
    \/ TruncateFinal
    \/ BulkInsert
    \/ FallbackBatch
    \/ FallbackDone

(***************************************************************************)
(* SupabaseClient.process_staging_to_final (lines 251-265).                *)
(***************************************************************************)
PromoteCall(result) ==
    [op |-> "promote", by |-> batch_id, batch |-> batch_id, result |-> result]

\* the call at line 255, with the count returned or the exception re-raised
ProcessStagingToFinal(next_ok, next_raised) ==
    /\ \/ LET rows == RowsPromoted(staging, batch_id, next_id)
          IN  /\ final' = final \cup rows
              /\ calls' = Append(calls, PromoteCall("ok"))
              /\ next_id' = next_id + Cardinality(rows)
              /\ ret' = Cardinality(rows)
              /\ pc' = next_ok
              /\ UNCHANGED exc
       \/ /\ calls' = Append(calls, PromoteCall("raised"))
          /\ pc' = next_raised
          /\ exc' = "process_staging_batch_v2 failed"
          /\ UNCHANGED <<final, next_id, ret>>
    /\ UNCHANGED staging

(***************************************************************************)
(* A load called on its own: insert_staging_data on any frame, then        *)
(* process_staging_to_final for the same batch, as both callers do.        *)
(***************************************************************************)
\* the most rows a frame of the direct call holds
MaxRows == 2

LoadDays == {<<2025, 5, 1>>, <<2025, 5, 15>>, <<2025, 5, 31>>}

OldDays == {<<2025, 4, 30>>, <<2025, 6, 1>>} \cup LoadDays

DateTexts == {IsoDate(d) : d \in LoadDays} \cup {EmptyDate, TextDate}

DirectFrames ==
    {Frame(dates) : dates \in SeqsUpTo(DateTexts, MaxRows)}
    \cup {FrameWithoutDates(n) : n \in 1..MaxRows}

\* rows left by earlier batches: one for each old day and one whose date
\* is not a date
RECURSIVE DaysInOrder(_)
DaysInOrder(S) ==
    IF S = {} THEN <<>>
    ELSE LET x == CHOOSE y \in S : \A z \in S : DateLE(y, z)
         IN  <<x>> \o DaysInOrder(S \ {x})

OldRows ==
    LET days == DaysInOrder(OldDays)
    IN  {[id |-> k, import_batch_id |-> "old",
          date |-> IsoDate(days[k]), receipt |-> k] : k \in 1..Len(days)}
        \cup {[id |-> Len(days) + 1, import_batch_id |-> "old",
               date |-> TextDate, receipt |-> Len(days) + 1]}

InitLoad ==
    /\ pc = "load"
    /\ caller = "direct"
    /\ df \in DirectFrames
    /\ batch_id = "batch"
    /\ staging \in {{}, OldRows}
    /\ final \in {{}, OldRows}
    /\ next_id = Cardinality(OldRows) + 1
    /\ calls = <<>>
    /\ bulk_records = <<>> /\ start_date = None /\ end_date = None
    /\ total_inserted = 0 /\ fb_i = 0 /\ ret = None /\ exc = None
    /\ vStart = None /\ vEnd = None /\ vToday = None /\ vResult = None
    /\ sStart = None /\ sEnd = None /\ sResult = None
    /\ HistIdle
    /\ other = None

DirectPromote ==
    /\ pc = "load_returned"
    /\ caller = "direct"
    /\ ProcessStagingToFinal("done", "failed")
    /\ UNCHANGED <<valVars, splitVars, argVars, localVars, histVars>>
    /\ UNCHANGED other

DirectLoadRaised ==
    /\ pc = "load_raised"
    /\ caller = "direct"
    /\ pc' = "failed"
    /\ UNCHANGED <<valVars, splitVars, dbVars, loadVars, histVars>>
    /\ UNCHANGED other

NextLoad ==
    \/ LoadStep
    \/ DirectPromote
    \/ DirectLoadRaised

SpecLoad == InitLoad /\ [][NextLoad]_vars

(***************************************************************************)
(* A load of a frame of more rows than one fallback batch holds.           *)
(***************************************************************************)
\* the most whole fallback batches a frame fills
MaxBatches == 2

FallbackSizes ==
    {1, batch_size - 1, batch_size, batch_size + 1}
    \cup {k * batch_size : k \in 1..MaxBatches}
    \cup {MaxBatches * batch_size + 1}

LongFrames ==
    {Frame([k \in 1..n |-> IsoDate(<<2025, 5, 15>>)]) : n \in FallbackSizes}

InitFallback ==
    /\ pc = "load"
    /\ caller = "direct"
    /\ df \in LongFrames
    /\ batch_id = "batch"
    /\ staging \in {{}, OldRows}
    /\ final \in {{}, OldRows}
    /\ next_id = Cardinality(OldRows) + 1
    /\ calls = <<>>
    /\ bulk_records = <<>> /\ start_date = None /\ end_date = None
    /\ total_inserted = 0 /\ fb_i = 0 /\ ret = None /\ exc = None
    /\ vStart = None /\ vEnd = None /\ vToday = None /\ vResult = None
    /\ sStart = None /\ sEnd = None /\ sResult = None
    /\ HistIdle
    /\ other = None

SpecFallback == InitFallback /\ [][NextLoad]_vars

(***************************************************************************)
(* The same frame loaded and promoted a second time, under a batch id of   *)
(* its own, once the first load and promote are over.                      *)
(***************************************************************************)
DirectAgain ==
    /\ pc = "done"
    /\ caller = "direct"
    /\ batch_id = "batch"
    /\ batch_id' = "batch2"
    /\ pc' = "load"
    /\ bulk_records' = <<>> /\ start_date' = None /\ end_date' = None
    /\ total_inserted' = 0 /\ fb_i' = 0 /\ ret' = None
    /\ UNCHANGED <<valVars, splitVars, dbVars, caller, df, exc, histVars>>
    /\ UNCHANGED other

NextTwice ==
    \/ NextLoad
    \/ DirectAgain

SpecTwice == InitLoad /\ [][NextTwice]_vars

(***************************************************************************)
(* Two runs at the same time on one database.  Neither the client nor the  *)
(* service takes a lock, so the steps of the two runs interleave at every  *)
(* database call.  The variables of the load hold the run that is taking   *)
(* steps; `other` holds the run that is waiting.                           *)
(***************************************************************************)
RaceFrames ==
    {Frame(<<IsoDate(d)>>) : d \in LoadDays}
    \cup {Frame(<<IsoDate(<<2025, 5, 1>>), IsoDate(<<2025, 5, 31>>)>>)}

\* the position, arguments and locals of the run taking steps
RunContext ==
    [pc |-> pc, df |-> df, batch_id |-> batch_id,
     bulk_records |-> bulk_records, start_date |-> start_date,
     end_date |-> end_date, total_inserted |-> total_inserted,
     fb_i |-> fb_i, ret |-> ret, exc |-> exc]

NewRun(frame, batch) ==
    [pc |-> "load", df |-> frame, batch_id |-> batch,
     bulk_records |-> <<>>, start_date |-> None, end_date |-> None,
     total_inserted |-> 0, fb_i |-> 0, ret |-> None, exc |-> None]

RunOver(run) == run.pc \in {"done", "failed"}

\* the waiting run takes the next steps; the running one waits
Switch ==
    /\ caller = "direct"
    /\ ~RunOver(other)
    /\ pc' = other.pc
    /\ df' = other.df
    /\ batch_id' = other.batch_id
    /\ bulk_records' = other.bulk_records
    /\ start_date' = other.start_date
    /\ end_date' = other.end_date
    /\ total_inserted' = other.total_inserted
    /\ fb_i' = other.fb_i
    /\ ret' = other.ret
    /\ exc' = other.exc
    /\ other' = RunContext
    /\ UNCHANGED <<valVars, splitVars, dbVars, caller, histVars>>

InitRace ==
    /\ pc = "load"
    /\ caller = "direct"
    /\ df \in RaceFrames
    /\ batch_id = "batch"
    /\ other \in {NewRun(frame, "batch2") : frame \in RaceFrames}
    /\ staging = {}
    /\ final \in {{}, OldRows}
    /\ next_id = Cardinality(OldRows) + 1
    /\ calls = <<>>
    /\ bulk_records = <<>> /\ start_date = None /\ end_date = None
    /\ total_inserted = 0 /\ fb_i = 0 /\ ret = None /\ exc = None
    /\ vStart = None /\ vEnd = None /\ vToday = None /\ vResult = None
    /\ sStart = None /\ sEnd = None /\ sResult = None
    /\ HistIdle

NextRace ==
    \/ NextLoad
    \/ Switch

SpecRace == InitRace /\ [][NextRace]_vars

(***************************************************************************)
(* SupabaseClient.create_sync_log / update_sync_log.  The log table keeps  *)
(* one record for each batch; update_sync_log swallows a failed call.      *)
(***************************************************************************)
\* the p_error_message of a log record: None, or a text
NoMessage == [present |-> FALSE, text |-> <<>>]

Message(text) == [present |-> TRUE, text |-> text]

NewSyncLog(process_type) ==
    [process_type |-> process_type, status |-> "running",
     records_processed |-> 0, error_message |-> NoMessage]

\* lines 44-74: the call is recorded; the table changes only if it succeeds
UpdateSyncLog(status, records_processed, error_message, rpc_ok) ==
    /\ log_updates' = Append(log_updates,
            [batch |-> batch_id, status |-> status,
             records_processed |-> records_processed,
             error_message |-> error_message])
    /\ sync_log' = IF rpc_ok
                   THEN [sync_log EXCEPT !.status = status,
                            !.records_processed = records_processed,
                            !.error_message = error_message]
                   ELSE sync_log

(***************************************************************************)
(* SalesService.sync_historical_data (services.py lines 108-276).          *)
(***************************************************************************)
\* the most monthly chunks a run of the model covers
MaxChunks == 2

RunToday == <<2025, 6, 10>>

RunStart == <<2025, 1, 7>>

RunRanges ==
    {<<RunStart, PlusMonths(<<2025, 1, 15>>, k)>> : k \in 0..(MaxChunks - 1)}

\* what the scraper may hand back for a chunk that has data
ChunkFrames(chunk) ==
    {Frame(<<IsoDate(chunk[1])>>),
     Frame(<<IsoDate(chunk[2]), IsoDate(chunk[1])>>)}

EmptyFrame == Frame(<<>>)

\* rows of an earlier batch, in the first two months of the range and
\* before it
OldRunRows ==
    {[id |-> 1, import_batch_id |-> "old",
      date |-> IsoDate(<<2024, 12, 31>>), receipt |-> 1],
     [id |-> 2, import_batch_id |-> "old",
      date |-> IsoDate(RunStart), receipt |-> 2],
     [id |-> 3, import_batch_id |-> "old",
      date |-> IsoDate(<<2025, 2, 1>>), receipt |-> 3]}

\* a slip: the last day of the chunk not counted
Days_Exclusive(chunk) == ToOrdinal(chunk[2]) - ToOrdinal(chunk[1])

\* (chunk_end - chunk_start).days + 1
Days(chunk) == ToOrdinal(chunk[2]) - ToOrdinal(chunk[1]) + 1

\* a slip: the chunks taken from the last to the first
CurrentChunk_Reversed == monthly_chunks[Len(monthly_chunks) + 1 - chunk_i]

CurrentChunk == monthly_chunks[chunk_i]

\* a slip: the loop left after the first chunk
AfterChunk_Stop == "cleanup"

\* the for statement at line 159: the next chunk, or the end of the loop
AfterChunk == IF chunk_i < Len(monthly_chunks) THEN "fetch" ELSE "cleanup"

\* a slip: the loop left at the first chunk that fails
AfterFailedChunk_Break == "cleanup"

\* lines 204-220: the handler ends and the loop goes on
AfterFailedChunk == AfterChunk

\* lines 119-156: validation, the batch record, the chunks, the result
HistStart ==
    /\ pc = "hist"
    /\ LET v == validate_date_range(hStart, hEnd, vToday)
           chunks == split_date_range_by_month(v.start, v.end)
       IN  \/ /\ batch_id' = "batch"
              /\ sync_log' = NewSyncLog("historical_sync")
              /\ validated' = v
              /\ monthly_chunks' = chunks
              /\ chunk_i' = 1
              /\ overall_results' =
                    [success |-> TRUE,
                     message |-> <<>>,
                     batch_id |-> "batch",
                     start_date |-> v.start,
                     end_date |-> v.end,
                     warnings |-> v.warnings,
                     total_chunks |-> Len(chunks),
                     chunks_processed |-> 0,
                     total_records_processed |-> 0,
                     chunk_results |-> <<>>,
                     errors |-> <<>>]
              /\ pc' = IF Len(chunks) >= 1 THEN "fetch" ELSE "cleanup"
              /\ UNCHANGED exc
           \/ \* create_sync_log raises (line 139, outside the try)
              /\ pc' = "hist_raised"
              /\ exc' = "create_sync_log failed"
              /\ UNCHANGED <<batch_id, sync_log, validated, monthly_chunks,
                             chunk_i, overall_results>>
    /\ caller' = "historical"
    /\ UNCHANGED <<vStart, vEnd, vToday, vResult, splitVars, dbVars, df,
                   localVars, ret, hStart, hEnd, log_updates,
                   records_inserted>>
    /\ UNCHANGED other

\* the record of a call of scrape_historical_data: the number of rows
\* handed back and how it ended: "raised", "ok", or "swallowed" when an
\* error inside the scraper ended in an empty frame
ScrapeCall(result, rows) ==
    [op |-> "scrape", start |-> CurrentChunk[1], end |-> CurrentChunk[2],
     rows |-> rows, result |-> result]

\* line 165 raises: the browser or the login failed
HistFetchRaises ==
    /\ pc = "fetch"
    /\ calls' = Append(calls, ScrapeCall("raised", 0))
    /\ pc' = "chunk_failed"
    /\ exc' = "scrape_historical_data failed"
    /\ UNCHANGED <<valVars, splitVars, staging, final, next_id, argVars, localVars, ret,
                   hStart, hEnd, validated, monthly_chunks, chunk_i,
                   overall_results, sync_log, log_updates, records_inserted>>
    /\ UNCHANGED other

\* lines 165-178: the scraper returns an empty frame, either because the
\* period has no data or because it swallowed an error of the date
\* selection or the export (qashier_scraper.py lines 129-132, 436-450)
HistFetchEmpty ==
    /\ pc = "fetch"
    /\ \E result \in {"ok", "swallowed"} :
          calls' = Append(calls, ScrapeCall(result, 0))
    /\ df' = EmptyFrame
    /\ overall_results' =
          [overall_results EXCEPT
             !.chunk_results = Append(@,
                [chunk_index |-> chunk_i,
                 start_date |-> CurrentChunk[1],
                 end_date |-> CurrentChunk[2],
                 days |-> Days(CurrentChunk),
                 success |-> TRUE,
                 records_scraped |-> 0,
                 records_processed |-> 0,
                 message |-> <<"No data found for this period">>]),
             !.chunks_processed = @ + 1]
    /\ chunk_i' = chunk_i + 1
    /\ pc' = AfterChunk
    /\ UNCHANGED <<valVars, splitVars, staging, final, next_id, caller,
                   batch_id, localVars, ret, exc, hStart, hEnd, validated, monthly_chunks,
                   sync_log, log_updates, records_inserted>>
    /\ UNCHANGED other

\* lines 165-181: the scraper returns rows and insert_staging_data is called
HistFetchData ==
    /\ pc = "fetch"
    /\ df' \in ChunkFrames(CurrentChunk)
    /\ calls' = Append(calls, ScrapeCall("ok", Len(df'.rows)))
    /\ pc' = "load"
    /\ bulk_records' = <<>> /\ start_date' = None /\ end_date' = None
    /\ total_inserted' = 0 /\ fb_i' = 0
    /\ UNCHANGED <<valVars, splitVars, staging, final, next_id, caller, batch_id, ret, exc,
                   hStart, hEnd, validated, monthly_chunks, chunk_i,
                   overall_results, sync_log, log_updates, records_inserted>>
    /\ UNCHANGED other

\* lines 181-184: the load has returned; process_staging_to_final
HistPromote ==
    /\ pc = "load_returned"
    /\ caller = "historical"
    /\ records_inserted' = ret
    /\ ProcessStagingToFinal("chunk_ok", "chunk_failed")
    /\ UNCHANGED <<valVars, splitVars, argVars, localVars, hStart, hEnd,
                   validated, monthly_chunks, chunk_i, overall_results,
                   sync_log, log_updates>>
    /\ UNCHANGED other

\* lines 186-202: the chunk is recorded as successful
HistChunkOk ==
    /\ pc = "chunk_ok"
    /\ overall_results' =
          [overall_results EXCEPT
             !.total_records_processed = @ + ret,
             !.chunk_results = Append(@,
                [chunk_index |-> chunk_i,
                 start_date |-> CurrentChunk[1],
                 end_date |-> CurrentChunk[2],
                 days |-> Days(CurrentChunk),
                 success |-> TRUE,
                 records_scraped |-> Len(df.rows),
                 records_processed |-> ret,
                 message |-> <<"Successfully processed", ret, "records">>]),
             !.chunks_processed = @ + 1]
    /\ chunk_i' = chunk_i + 1
    /\ pc' = AfterChunk
    /\ UNCHANGED <<valVars, splitVars, dbVars, argVars, localVars, ret, exc,
                   hStart, hEnd, validated, monthly_chunks, sync_log,
                   log_updates, records_inserted>>
    /\ UNCHANGED other

\* lines 204-220: the scrape, the load or the promote of the chunk raised
HistChunkFailed ==
    /\ pc \in {"chunk_failed", "load_raised"}
    /\ caller = "historical"
    /\ LET error_msg == <<"Failed to process chunk", CurrentChunk[1],
                          CurrentChunk[2], exc>>
       IN  overall_results' =
              [overall_results EXCEPT
                 !.chunk_results = Append(@,
                    [chunk_index |-> chunk_i,
                     start_date |-> CurrentChunk[1],
                     end_date |-> CurrentChunk[2],
                     days |-> Days(CurrentChunk),
                     success |-> FALSE,
                     error |-> exc,
                     message |-> error_msg]),
                 !.errors = Append(@, error_msg),
                 !.success = FALSE]
    /\ chunk_i' = chunk_i + 1
    /\ pc' = AfterFailedChunk
    /\ UNCHANGED <<valVars, splitVars, dbVars, argVars, localVars, ret, exc,
                   hStart, hEnd, validated, monthly_chunks, sync_log,
                   log_updates, records_inserted>>
    /\ UNCHANGED other

\* SupabaseClient.cleanup_staging_data (lines 267-273) only writes to the
\* program's log; then the summary message (services.py lines 223-229)
HistCleanup ==
    /\ pc = "cleanup"
    /\ overall_results' =
          [overall_results EXCEPT !.message =
             IF overall_results.success
             THEN <<"Successfully processed", overall_results.chunks_processed,
                    overall_results.total_chunks,
                    overall_results.total_records_processed>>
             ELSE <<"Completed with errors", overall_results.chunks_processed,
                    overall_results.total_chunks,
                    Len(overall_results.errors)>>]
    /\ pc' = "update"
    /\ UNCHANGED <<valVars, splitVars, dbVars, argVars, localVars, ret, exc,
                   hStart, hEnd, validated, monthly_chunks, chunk_i,
                   sync_log, log_updates, records_inserted>>
    /\ UNCHANGED other

\* the status handed to update_sync_log at line 234
FinalStatus(results) == IF results.success THEN "completed" ELSE "partial"

\* sep.join(texts): the texts with the separator between them
RECURSIVE JoinWith(_, _)
JoinWith(sep, texts) ==
    IF Len(texts) = 0 THEN <<>>
    ELSE IF Len(texts) = 1 THEN <<texts[1]>>
    ELSE <<texts[1], sep>> \o JoinWith(sep, Tail(texts))

\* a slip: only the last error kept
JoinErrors_LastOnly(errors) ==
    IF errors = <<>> THEN NoMessage
    ELSE Message(<<errors[Len(errors)]>>)

\* line 236: '; '.join(errors) if errors else None
JoinErrors(errors) ==
    IF errors = <<>> THEN NoMessage
    ELSE Message(JoinWith(<<"; ">>, errors))

\* lines 232-250: the batch record is updated and the result returned
HistUpdate ==
    /\ pc = "update"
    /\ \E rpc_ok \in BOOLEAN :
          UpdateSyncLog(FinalStatus(overall_results),
                        overall_results.total_records_processed,
                        JoinErrors(overall_results.errors), rpc_ok)
    /\ pc' = "hist_returned"
    /\ UNCHANGED <<valVars, splitVars, dbVars, argVars, localVars, ret, exc,
                   hStart, hEnd, validated, monthly_chunks, chunk_i,
                   overall_results, records_inserted>>
    /\ UNCHANGED other

InitHist ==
    /\ pc = "hist"
    /\ \E range \in RunRanges : hStart = range[1] /\ hEnd = range[2]
    /\ vToday = RunToday
    /\ vStart = None /\ vEnd = None /\ vResult = None
    /\ sStart = None /\ sEnd = None /\ sResult = None
    /\ staging \in {{}, OldRunRows}
    /\ final \in {{}, OldRunRows}
    /\ next_id = Cardinality(OldRunRows) + 1
    /\ calls = <<>>
    /\ LoadIdle
    /\ validated = None /\ monthly_chunks = <<>> /\ chunk_i = 0
    /\ overall_results = None /\ sync_log = None /\ log_updates = <<>>
    /\ records_inserted = 0
    /\ other = None

Next ==
    \/ HistStart
    \/ HistFetchRaises
    \/ HistFetchEmpty
    \/ HistFetchData
    \/ LoadStep
    \/ HistPromote
    \/ HistChunkOk
    \/ HistChunkFailed
    \/ HistCleanup
    \/ HistUpdate

Spec == InitHist /\ [][Next]_vars

(***************************************************************************)
(* SalesService.sync_daily_data (services.py lines 25-106).  The whole     *)
(* body is inside one try; the handler updates the batch record when the   *)
(* batch was created and returns a failure result.                         *)
(***************************************************************************)
\* what scrape_daily_data may hand back on a day that has data
DailyFrames ==
    {Frame(<<IsoDate(RunToday)>>),
     Frame(<<IsoDate(RunToday), IsoDate(RunToday)>>)}

\* rows of an earlier batch: one of today and one of the day before
OldDailyRows ==
    {[id |-> 1, import_batch_id |-> "old",
      date |-> IsoDate(MinusOneDay(RunToday)), receipt |-> 1],
     [id |-> 2, import_batch_id |-> "old",
      date |-> IsoDate(RunToday), receipt |-> 2]}

DailyScrapeCall(result, rows) ==
    [op |-> "scrape", start |-> vToday, end |-> vToday,
     rows |-> rows, result |-> result]

\* a slip: the handler never finds the batch id
BatchCreated_Never == FALSE

\* line 93: 'batch_id' in locals()
BatchCreated == batch_id # None

\* line 29: create_sync_log returns the batch id or raises
DailyStart ==
    /\ pc = "daily"
    /\ \/ /\ batch_id' = "batch"
          /\ sync_log' = NewSyncLog("daily_sync")
          /\ pc' = "daily_fetch"
          /\ UNCHANGED exc
       \/ /\ pc' = "daily_except"
          /\ exc' = "create_sync_log failed"
          /\ UNCHANGED <<batch_id, sync_log>>
    /\ caller' = "daily"
    /\ UNCHANGED <<valVars, splitVars, dbVars, df, localVars, ret, hStart,
                   hEnd, validated, monthly_chunks, chunk_i, overall_results,
                   records_inserted, log_updates>>
    /\ UNCHANGED other

\* line 34 raises: the browser, the login or the date selection failed
DailyFetchRaises ==
    /\ pc = "daily_fetch"
    /\ calls' = Append(calls, DailyScrapeCall("raised", 0))
    /\ pc' = "daily_except"
    /\ exc' = "scrape_daily_data failed"
    /\ UNCHANGED <<valVars, splitVars, staging, final, next_id, argVars,
                   localVars, ret, histVars>>
    /\ UNCHANGED other

\* lines 34-51: the frame is empty, because the day has no data or because
\* the download failed (qashier_scraper.py lines 436-450); the message is
\* passed in the place of error_message
DailyFetchEmpty ==
    /\ pc = "daily_fetch"
    /\ \E result \in {"ok", "swallowed"} :
          calls' = Append(calls, DailyScrapeCall(result, 0))
    /\ df' = EmptyFrame
    /\ \E rpc_ok \in BOOLEAN :
          UpdateSyncLog("completed", 0,
                        Message(<<"No data available for today">>), rpc_ok)
    /\ overall_results' =
          [success |-> TRUE,
           message |-> <<"No data available for today">>,
           batch_id |-> batch_id,
           records_scraped |-> 0,
           records_inserted |-> 0,
           records_processed |-> 0]
    /\ pc' = "daily_returned"
    /\ UNCHANGED <<valVars, splitVars, staging, final, next_id, caller,
                   batch_id, localVars, ret, exc, hStart, hEnd, validated,
                   monthly_chunks, chunk_i, records_inserted>>
    /\ UNCHANGED other

\* lines 34-55: the scraper returns rows and insert_staging_data is called
DailyFetchData ==
    /\ pc = "daily_fetch"
    /\ df' \in DailyFrames
    /\ calls' = Append(calls, DailyScrapeCall("ok", Len(df'.rows)))
    /\ pc' = "load"
    /\ bulk_records' = <<>> /\ start_date' = None /\ end_date' = None
    /\ total_inserted' = 0 /\ fb_i' = 0
    /\ UNCHANGED <<valVars, splitVars, staging, final, next_id, caller,
                   batch_id, ret, exc, histVars>>
    /\ UNCHANGED other

\* lines 55-59: the load has returned; process_staging_to_final
DailyPromote ==
    /\ pc = "load_returned"
    /\ caller = "daily"
    /\ records_inserted' = ret
    /\ ProcessStagingToFinal("daily_promoted", "daily_except")
    /\ UNCHANGED <<valVars, splitVars, argVars, localVars, hStart, hEnd,
                   validated, monthly_chunks, chunk_i, overall_results,
                   sync_log, log_updates>>
    /\ UNCHANGED other

\* lines 62-86: cleanup_staging_data only writes to the program's log; the
\* batch record is updated and the result returned
DailyCompleted ==
    /\ pc = "daily_promoted"
    /\ \E rpc_ok \in BOOLEAN :
          UpdateSyncLog("completed", ret, NoMessage, rpc_ok)
    /\ overall_results' =
          [success |-> TRUE,
           message |-> <<"Successfully processed", ret, "records">>,
           batch_id |-> batch_id,
           records_scraped |-> Len(df.rows),
           records_inserted |-> records_inserted,
           records_processed |-> ret]
    /\ pc' = "daily_returned"
    /\ UNCHANGED <<valVars, splitVars, dbVars, argVars, localVars, ret, exc,
                   hStart, hEnd, validated, monthly_chunks, chunk_i,
                   records_inserted>>
    /\ UNCHANGED other

\* lines 88-106: the handler; the failure is returned, never raised
DailyFailed ==
    /\ pc \in {"daily_except", "load_raised"}
    /\ caller = "daily"
    /\ IF BatchCreated
       THEN \E rpc_ok \in BOOLEAN :
               UpdateSyncLog("failed", 0, Message(<<exc>>), rpc_ok)
       ELSE UNCHANGED <<sync_log, log_updates>>
    /\ overall_results' =
          [success |-> FALSE,
           message |-> <<"Daily sync failed", exc>>,
           error |-> exc]
    /\ pc' = "daily_returned"
    /\ UNCHANGED <<valVars, splitVars, dbVars, argVars, localVars, ret, exc,
                   hStart, hEnd, validated, monthly_chunks, chunk_i,
                   records_inserted>>
    /\ UNCHANGED other

InitDaily ==
    /\ pc = "daily"
    /\ vToday = RunToday
    /\ vStart = None /\ vEnd = None /\ vResult = None
    /\ sStart = None /\ sEnd = None /\ sResult = None
    /\ staging \in {{}, OldDailyRows}
    /\ final \in {{}, OldDailyRows}
    /\ next_id = Cardinality(OldDailyRows) + 1
    /\ calls = <<>>
    /\ LoadIdle /\ HistIdle
    /\ other = None

NextDaily ==
    \/ DailyStart
    \/ DailyFetchRaises
    \/ DailyFetchEmpty
    \/ DailyFetchData
    \/ LoadStep
    \/ DailyPromote
    \/ DailyCompleted
    \/ DailyFailed

SpecDaily == InitDaily /\ [][NextDaily]_vars

(***************************************************************************)
(* Either sync operation, called once.                                     *)
(***************************************************************************)
InitSync == InitHist \/ InitDaily

NextSync == Next \/ NextDaily

SpecSync == InitSync /\ [][NextSync]_vars

(***************************************************************************)
(* calculate_sync_estimates (utils.py lines 120-139) and                   *)
(* SalesService.get_sync_estimates (services.py lines 278-321).            *)
(***************************************************************************)
calculate_sync_estimates(range_start, range_end) ==
    LET chunks == split_date_range_by_month(range_start, range_end)
    IN  [total_days |-> ToOrdinal(range_end) - ToOrdinal(range_start) + 1,
         monthly_chunks |-> Len(chunks),
         estimated_time_minutes |-> Len(chunks) * 2,
         chunks |-> [k \in 1..Len(chunks) |->
                        [start |-> IsoDate(chunks[k][1]),
                         end |-> IsoDate(chunks[k][2]),
                         days |-> Days(chunks[k])]]]

\* validate_date_range does not raise and hands on start <= end, so the
\* handler at lines 314-321 is never entered
get_sync_estimates(range_start, range_end, today) ==
    LET v == validate_date_range(range_start, range_end, today)
        estimates == calculate_sync_estimates(v.start, v.end)
    IN  [success |-> TRUE,
         original_range |-> [start_date |-> IsoDate(range_start),
                             end_date |-> IsoDate(range_end)],
         validated_range |-> [start_date |-> IsoDate(v.start),
                              end_date |-> IsoDate(v.end)],
         warnings |-> v.warnings,
         estimates |-> estimates,
         recommendations |-> [proceed |-> estimates.monthly_chunks <= 6]]

EstimateCall ==
    /\ pc = "estimate"
    /\ pc' = "estimated"
    /\ sResult' = calculate_sync_estimates(sStart, sEnd)
    /\ UNCHANGED <<sStart, sEnd, valVars, dbVars, loadVars, histVars>>
    /\ UNCHANGED other

GetEstimatesCall ==
    /\ pc = "get_estimates"
    /\ pc' = "got_estimates"
    /\ vResult' = get_sync_estimates(vStart, vEnd, vToday)
    /\ UNCHANGED <<vStart, vEnd, vToday, splitVars, dbVars, loadVars, histVars>>
    /\ UNCHANGED other

InitEstimate ==
    /\ \/ /\ pc = "estimate"
          /\ sStart \in InputDates
          /\ sEnd \in {e \in InputDates : DateLE(sStart, e)}
          /\ vStart = None /\ vEnd = None /\ vToday = None
       \/ /\ pc = "get_estimates"
          /\ vStart \in InputDates
          /\ vEnd \in InputDates
          /\ vToday \in Todays
          /\ sStart = None /\ sEnd = None
    /\ sResult = None /\ vResult = None
    /\ DbIdle /\ LoadIdle /\ HistIdle
    /\ other = None

NextEstimate ==
    \/ EstimateCall
    \/ GetEstimatesCall

SpecEstimate == InitEstimate /\ [][NextEstimate]_vars

(***************************************************************************)
(* Claims about validate_date_range.                                       *)
(***************************************************************************)
Validated == pc = "validated"

\* C4: the returned start is never before the earliest allowed date
\* (2024-03-01), whatever the input and the clock.
C4_StartNotBeforeEarliest ==
    Validated => DateLE(earliest_allowed, vResult.start)

\* C5: the returned range spans at most 12 months,
\* (end'.year - start'.year) * 12 + (end'.month - start'.month) <= 12.
C5_SpanAtMostMaxMonths ==
    Validated => MonthsDiff(vResult.start, vResult.end) <= max_months

\* C6: validate_date_range returns a range of two calendar dates with
\* start' <= end', whatever the input and the clock.
C6_StartNotAfterEnd ==
    Validated =>
        /\ IsDate(vResult.start) /\ IsDate(vResult.end)
        /\ DateLE(vResult.start, vResult.end)

\* the inputs arrived in reverse order and the final swap has put them right
C6_Witness ==
    /\ Validated
    /\ DateGT(vStart, vEnd)
    /\ vResult.warnings = <<WSwapped>>
    /\ DateLT(vResult.start, vResult.end)

SplitDone == pc = "split_done"

\* C8: for start <= end the chunks cover the range exactly: the first
\* starts at start, the last ends at end, each has start <= end, and each
\* chunk starts on the day after the one before it ends.
C8_ChunksCoverRange ==
    SplitDone =>
        /\ Len(sResult) >= 1
        /\ sResult[1][1] = sStart
        /\ sResult[Len(sResult)][2] = sEnd
        /\ \A i \in 1..Len(sResult) :
              /\ IsDate(sResult[i][1]) /\ IsDate(sResult[i][2])
              /\ ToOrdinal(sResult[i][1]) <= ToOrdinal(sResult[i][2])
        /\ \A i \in 1..(Len(sResult) - 1) :
              ToOrdinal(sResult[i][2]) + 1 = ToOrdinal(sResult[i + 1][1])

\* a range over more than a year, starting and ending inside a month
C8_Witness ==
    /\ SplitDone
    /\ Len(sResult) >= 14
    /\ sStart[3] = 15 /\ sEnd[3] = 15
    /\ sResult[Len(sResult)] = <<<<sEnd[1], sEnd[2], 1>>, sEnd>>

\* C9: every chunk lies inside one calendar month and there is one chunk
\* for each calendar month the range touches (so one chunk for a single
\* day and for a range inside one month).
C9_OneChunkPerMonth ==
    SplitDone =>
        /\ \A i \in 1..Len(sResult) :
              /\ sResult[i][1][1] = sResult[i][2][1]
              /\ sResult[i][1][2] = sResult[i][2][2]
        /\ Len(sResult) = MonthsDiff(sStart, sEnd) + 1
        /\ (sStart = sEnd => sResult = <<<<sStart, sEnd>>>>)

\* a range that ends on the last day of a month, in one chunk
C9_Witness ==
    /\ SplitDone
    /\ sStart[3] = 15 /\ sEnd[3] = 31
    /\ sResult = <<<<sStart, sEnd>>>>

(***************************************************************************)
(* Claims about insert_staging_data.                                       *)
(***************************************************************************)
\* the days of the rows of a frame whose date is a date
ValidDays(frame) ==
    IF frame.date_col
    THEN {frame.rows[k].date.day :
            k \in {j \in 1..Len(frame.rows) : frame.rows[j].date.kind = "iso"}}
    ELSE {}

IsTruncate(call) == call.op \in {"truncate_staging", "truncate_final"}

\* C1: insert_staging_data makes no truncate call unless it holds at least
\* one prepared record; called with an empty frame, or with rows none of
\* which has a valid date, it returns 0 and leaves the staging and final
\* tables as they were.
C1_NoDeleteWithoutRecords ==
    [][/\ (pc = "load" /\ ValidDays(df) = {}) =>
            /\ pc' = "load_returned"
            /\ ret' = 0
            /\ UNCHANGED <<staging, final, calls>>
       /\ (Len(calls') > Len(calls) /\ IsTruncate(calls'[Len(calls')])) =>
            /\ Len(bulk_records) >= 1
            /\ ValidDays(df) # {}]_vars

\* a frame of rows without any valid date came back with 0, the old rows
\* still in both tables and no call made
C1_Witness ==
    /\ pc = "load_returned"
    /\ caller = "direct"
    /\ df.date_col /\ Len(df.rows) = MaxRows
    /\ ValidDays(df) = {}
    /\ \E k \in 1..Len(df.rows) : df.rows[k].date = TextDate
    /\ ret = 0
    /\ staging = OldRows /\ final = OldRows
    /\ calls = <<>>

\* the first and the last day of the valid dates of a frame
MinDay(frame) ==
    CHOOSE d \in ValidDays(frame) :
        \A e \in ValidDays(frame) : ToOrdinal(d) <= ToOrdinal(e)

MaxDay(frame) ==
    CHOOSE d \in ValidDays(frame) :
        \A e \in ValidDays(frame) : ToOrdinal(e) <= ToOrdinal(d)

OutsideSpan(row, frame) ==
    \/ row.date.kind # "iso"
    \/ ToOrdinal(row.date.day) < ToOrdinal(MinDay(frame))
    \/ ToOrdinal(row.date.day) > ToOrdinal(MaxDay(frame))

\* C10: a load of a frame whose valid dates span [minDate, maxDate] leaves
\* every staging row and every final row dated outside that span as it
\* was, in its delete, insert and promote steps.
C10_RowsOutsideSpanKept ==
    [][(caller = "direct" /\ ValidDays(df) # {}) =>
          /\ \A row \in staging : OutsideSpan(row, df) => row \in staging'
          /\ \A row \in final : OutsideSpan(row, df) => row \in final']_vars

\* a load over part of May has replaced the old rows inside its span and
\* kept the old May rows outside it
C10_Witness ==
    /\ pc = "done"
    /\ caller = "direct"
    /\ ValidDays(df) = {<<2025, 5, 15>>, <<2025, 5, 31>>}
    /\ \A row \in OldRows :
          /\ row \in staging <=> OutsideSpan(row, df)
          /\ row \in final <=> OutsideSpan(row, df)
    /\ \E row \in OldRows : row.date = IsoDate(<<2025, 5, 1>>) /\ row \in final
    /\ Cardinality({row \in final : row.import_batch_id = batch_id}) = 2

(***************************************************************************)
(* Claims about sync_historical_data.                                      *)
(***************************************************************************)
\* the positions of the scrape calls among the calls made so far
ScrapeCalls == {j \in 1..Len(calls) : calls[j].op = "scrape"}

\* the calls made for chunk k: its scrape call and those up to the next one
ChunkCalls(k) ==
    {j \in 1..Len(calls) : Cardinality({i \in ScrapeCalls : i <= j}) = k}

\* the calls whose exception reaches the chunk loop (a failed insert is
\* absorbed by insert_staging_data)
Raising(k) ==
    {j \in ChunkCalls(k) : calls[j].result = "raised" /\ calls[j].op # "insert"}

ErrorText(call) ==
    CASE call.op = "scrape" -> "scrape_historical_data failed"
      [] call.op = "truncate_staging" ->
            "truncate_staging_data_for_date_range failed"
      [] call.op = "truncate_final" ->
            "truncate_sales_data_for_date_range failed"
      [] call.op = "promote" -> "process_staging_batch_v2 failed"

LoopOver == pc \in {"cleanup", "update", "hist_returned"}

\* C2: a run over N chunks ends with N chunk results in chunk order; a
\* chunk whose fetch or load raised is marked failed with the error text,
\* every chunk is fetched and marked by its own outcome, and the status is
\* partial when a chunk failed and another succeeded.
C2_FailureIsolation ==
    LoopOver =>
        LET N == Len(monthly_chunks)
            R == overall_results.chunk_results
        IN  /\ Len(R) = N
            /\ \A k \in 1..N :
                  /\ R[k].chunk_index = k
                  /\ R[k].start_date = monthly_chunks[k][1]
                  /\ R[k].end_date = monthly_chunks[k][2]
                  /\ \E j \in ChunkCalls(k) :
                        /\ calls[j].op = "scrape"
                        /\ calls[j].start = monthly_chunks[k][1]
                        /\ calls[j].end = monthly_chunks[k][2]
                  /\ R[k].success <=> Raising(k) = {}
                  /\ \A j \in Raising(k) : R[k].error = ErrorText(calls[j])
            /\ (/\ pc = "hist_returned"
                /\ \E k \in 1..N : ~R[k].success
                /\ \E k \in 1..N : R[k].success) =>
                  /\ Len(log_updates) = 1
                  /\ log_updates[1].status = "partial"

\* the fetch of the first chunk raised, the second chunk was loaded and
\* promoted, and the run ended partial
C2_Witness ==
    /\ pc = "hist_returned"
    /\ Len(monthly_chunks) = 2
    /\ \E j \in Raising(1) : calls[j].op = "scrape"
    /\ ~overall_results.chunk_results[1].success
    /\ overall_results.chunk_results[2].success
    /\ overall_results.chunk_results[2].records_processed = 2
    /\ log_updates[1].status = "partial"

\* C3: the status written to the batch after the chunk loop is completed
\* if every chunk succeeded, partial if some succeeded and some failed,
\* and failed if none succeeded.
C3_StatusFromChunkOutcomes ==
    pc = "hist_returned" =>
        LET R == overall_results.chunk_results
            good == {k \in 1..Len(R) : R[k].success}
            status == log_updates[Len(log_updates)].status
        IN  status = IF good = 1..Len(R) THEN "completed"
                     ELSE IF good # {} THEN "partial"
                     ELSE "failed"

(***************************************************************************)
(* Claims about sync_daily_data.                                           *)
(***************************************************************************)
\* the call of sync_daily_data is over: it returned or it raised
DailyOver == pc \in {"daily_returned", "daily_raised"}

\* C11: when a stage of sync_daily_data after the batch creation raises,
\* the batch record is updated to failed with the exception message and
\* the error is then raised to the caller.
C11_FailureUpdatedAndReRaised ==
    (DailyOver /\ caller = "daily" /\ batch_id = "batch" /\ exc # None) =>
        /\ Len(log_updates) = 1
        /\ log_updates[1].status = "failed"
        /\ log_updates[1].error_message = Message(<<exc>>)
        /\ pc = "daily_raised"

(***************************************************************************)
(* Claims about the insert step and the batch record.                      *)
(***************************************************************************)
InsertCalls == {j \in 1..Len(calls) : calls[j].op = "insert"}

\* C12: insert_staging_data raises to its caller when the bulk insert and
\* every fallback batch insert raise, instead of returning a count.
C12_RaisesWhenEveryInsertFails ==
    (/\ caller = "direct"
     /\ pc \in {"load_returned", "load_raised"}
     /\ InsertCalls # {}
     /\ \A j \in InsertCalls : calls[j].result = "raised") =>
        pc = "load_raised"

TerminalStatus == {"completed", "partial", "failed"}

\* C13: a call of sync_daily_data or sync_historical_data that created a
\* batch issues exactly one status update for it before it returns, with a
\* terminal status (completed, partial or failed), and none after that.
C13_OneTerminalUpdate ==
    /\ Len(log_updates) <= 1
    /\ \A k \in 1..Len(log_updates) :
          /\ log_updates[k].status \in TerminalStatus
          /\ log_updates[k].batch = "batch"
    /\ (pc \in {"hist_returned", "daily_returned"} /\ batch_id = "batch") =>
          Len(log_updates) = 1

\* the promote of the daily sync raised and the batch was marked failed,
\* once
C13_Witness ==
    /\ pc = "daily_returned"
    /\ caller = "daily"
    /\ exc = "process_staging_batch_v2 failed"
    /\ Len(log_updates) = 1
    /\ log_updates[1].status = "failed"
    /\ ~overall_results.success

SyncOver == pc \in {"hist_returned", "hist_raised",
                    "daily_returned", "daily_raised"}

\* C14: every call of a sync operation returns a result with a success
\* flag and a message, whichever collaborator call fails, the creation of
\* the batch included.
C14_AlwaysReturnsResult ==
    SyncOver =>
        /\ pc \in {"hist_returned", "daily_returned"}
        /\ overall_results.success \in BOOLEAN
        /\ overall_results.message # <<>>

\* the chunk results marked failed
IsFailed(result) == ~result.success

RECURSIVE SumProcessed(_)
SumProcessed(results) ==
    IF results = <<>> THEN 0
    ELSE (IF Head(results).success THEN Head(results).records_processed
          ELSE 0) + SumProcessed(Tail(results))

\* C15: in a historical run the total_records_processed of the result and
\* of the batch record is the sum of records_processed over the chunk
\* results marked successful, and the error message of the batch record is
\* the failed chunks' messages in chunk order joined by '; ', or None when
\* no chunk failed.
C15_TotalsAndErrors ==
    pc = "hist_returned" =>
        LET R == overall_results.chunk_results
            failed == SelectSeq(R, IsFailed)
            update == log_updates[1]
        IN  /\ overall_results.total_records_processed = SumProcessed(R)
            /\ update.records_processed = SumProcessed(R)
            /\ update.error_message.present <=> failed # <<>>
            /\ failed # <<>> =>
                  /\ Len(update.error_message.text) = 2 * Len(failed) - 1
                  /\ \A k \in 1..Len(failed) :
                        update.error_message.text[2 * k - 1] = failed[k].message
                  /\ \A k \in 1..(Len(failed) - 1) :
                        update.error_message.text[2 * k] = <<"; ">>

\* two chunks failed, the first after its rows were inserted, and both
\* messages are in the batch record
C15_Witness ==
    /\ pc = "hist_returned"
    /\ Len(overall_results.chunk_results) = 2
    /\ ~overall_results.chunk_results[1].success
    /\ overall_results.chunk_results[1].error = "process_staging_batch_v2 failed"
    /\ ~overall_results.chunk_results[2].success
    /\ Len(log_updates[1].error_message.text) = 3
    /\ log_updates[1].records_processed = 0

(***************************************************************************)
(* Claims about the estimates.                                             *)
(***************************************************************************)
RECURSIVE SumDays(_)
SumDays(chunks) ==
    IF chunks = <<>> THEN 0 ELSE Head(chunks).days + SumDays(Tail(chunks))

\* C16: for start <= end calculate_sync_estimates agrees with
\* split_date_range_by_month: monthly_chunks is the number of chunks,
\* estimated_time_minutes is 2 * monthly_chunks, total_days is
\* end - start + 1 and the sum of the chunks' days; get_sync_estimates
\* recommends to proceed exactly when monthly_chunks <= 6.
C16_EstimatesAgreeWithSplit ==
    /\ pc = "estimated" =>
          /\ sResult.monthly_chunks = Len(split_date_range_by_month(sStart, sEnd))
          /\ sResult.monthly_chunks = MonthsDiff(sStart, sEnd) + 1
          /\ sResult.estimated_time_minutes = 2 * sResult.monthly_chunks
          /\ sResult.total_days = ToOrdinal(sEnd) - ToOrdinal(sStart) + 1
          /\ sResult.total_days = SumDays(sResult.chunks)
    /\ pc = "got_estimates" =>
          (vResult.recommendations.proceed <=>
              vResult.estimates.monthly_chunks <= 6)

\* a range of seven months is estimated at seven chunks and not recommended
C16_Witness ==
    /\ pc = "got_estimates"
    /\ vResult.warnings = <<>>
    /\ vResult.estimates.monthly_chunks = 7
    /\ vResult.estimates.estimated_time_minutes = 14
    /\ ~vResult.recommendations.proceed

(***************************************************************************)
(* Claims about the order of the steps of a historical run.                *)
(***************************************************************************)
ChunksFetched == Cardinality(ScrapeCalls)

\* C17: within one chunk's load the staging delete and the final-table
\* delete are both over before the first insert is attempted, and every
\* insert attempt (bulk and fallback) is over before promote is called.
C17_DeleteInsertPromoteInOrder ==
    \A k \in 1..ChunksFetched :
        \A i, j \in ChunkCalls(k) :
            /\ (IsTruncate(calls[i]) /\ calls[j].op = "insert") => i < j
            /\ (calls[i].op = "insert" /\ calls[j].op = "promote") => i < j
            /\ (calls[j].op = "insert") =>
                  \E a, b \in ChunkCalls(k) :
                     /\ a < b /\ b < j
                     /\ calls[a].op = "truncate_staging"
                     /\ calls[a].result = "ok"
                     /\ calls[b].op = "truncate_final"
                     /\ calls[b].result = "ok"

\* both deletes, a bulk insert that failed, its fallback batch and then
\* the promote
C17_Witness ==
    \E j \in 5..Len(calls) :
        /\ calls[j].op = "promote" /\ calls[j].result = "ok"
        /\ calls[j - 1].op = "insert" /\ calls[j - 1].result = "ok"
        /\ calls[j - 2].op = "insert" /\ calls[j - 2].result = "raised"
        /\ calls[j - 3].op = "truncate_final"
        /\ calls[j - 4].op = "truncate_staging"

\* the position of the scrape call of chunk k
ScrapeOf(k) == CHOOSE j \in ChunkCalls(k) : calls[j].op = "scrape"

\* C18: a historical run takes its chunks one at a time in ascending date
\* order: the fetch of a chunk starts only when the fetch, load and promote
\* of the chunk before it have finished or failed.
C18_ChunksOneAtATimeAscending ==
    /\ \A k \in 1..ChunksFetched :
          /\ calls[ScrapeOf(k)].start = monthly_chunks[k][1]
          /\ calls[ScrapeOf(k)].end = monthly_chunks[k][2]
          /\ k > 1 => ToOrdinal(calls[ScrapeOf(k - 1)].end)
                          < ToOrdinal(calls[ScrapeOf(k)].start)
          /\ \A j \in ChunkCalls(k) :
                IsTruncate(calls[j]) =>
                    /\ ToOrdinal(monthly_chunks[k][1]) <= ToOrdinal(calls[j].start)
                    /\ ToOrdinal(calls[j].end) <= ToOrdinal(monthly_chunks[k][2])
    /\ pc = "fetch" =>
          /\ ChunksFetched = chunk_i - 1
          /\ Len(overall_results.chunk_results) = chunk_i - 1

\* two chunks, each fetched, loaded and promoted in turn
C18_Witness ==
    /\ pc = "hist_returned"
    /\ Len(monthly_chunks) = 2
    /\ ChunksFetched = 2
    /\ \A k \in 1..2 :
          \E j \in ChunkCalls(k) :
             calls[j].op = "promote" /\ calls[j].result = "ok"

\* C19: after a historical run no chunk is left with its span deleted and
\* not reloaded: when a delete step of a chunk went through, rows of the
\* batch dated inside the span are in the final table, also when a later
\* step of the chunk failed.
C19_NoSpanLeftDeleted ==
    pc = "hist_returned" =>
        \A j \in 1..Len(calls) :
            (IsTruncate(calls[j]) /\ calls[j].result = "ok") =>
                \E row \in final :
                    /\ row.import_batch_id = "batch"
                    /\ InRange(row, calls[j].start, calls[j].end)

\* C20: a chunk whose fetch failed is marked failed in the result of the
\* historical run, never successful with 0 records.
C20_FailedFetchMarkedFailed ==
    LoopOver =>
        \A k \in 1..Len(overall_results.chunk_results) :
            calls[ScrapeOf(k)].result \in {"raised", "swallowed"} =>
                ~overall_results.chunk_results[k].success

(***************************************************************************)
(* Claims about the staging rows of a batch.                               *)
(***************************************************************************)
StagingOf(batch) == {row \in staging : row.import_batch_id = batch}

\* C21: when a sync run whose load and promote succeeded has finished its
\* cleanup step, no staging row tagged with the batch id of the run is
\* left in the staging table.
C21_NoStagingRowsAfterCleanup ==
    (/\ pc \in {"hist_returned", "daily_returned"}
     /\ batch_id = "batch"
     /\ overall_results.success) =>
        StagingOf("batch") = {}

\* C22: in a historical run the promote of a chunk promotes only the rows
\* inserted for that chunk, so the records_processed of a chunk is never
\* more than the rows loaded for it and no row is counted twice in
\* total_records_processed.
C22_PromoteOnlyOwnChunk ==
    pc = "hist_returned" =>
        LET R == overall_results.chunk_results
        IN  \A k \in 1..Len(R) :
                R[k].success => R[k].records_processed <= R[k].records_scraped

\* C23: every row insert_staging_data inserts has a date that parses and
\* lies inside the span that was deleted; rows with an empty date or a
\* date that does not parse are not inserted.
C23_OnlyDatedRowsInserted ==
    caller = "direct" =>
        \A row \in StagingOf("batch") :
            /\ row.date.kind = "iso"
            /\ InRange(row, start_date, end_date)

(***************************************************************************)
(* Claims about the fallback of the insert step.                           *)
(***************************************************************************)
\* the insert calls made so far, in order
RECURSIVE InsertsOf(_)
InsertsOf(cs) ==
    IF cs = <<>> THEN <<>>
    ELSE (IF Head(cs).op = "insert" THEN <<Head(cs)>> ELSE <<>>)
         \o InsertsOf(Tail(cs))

RECURSIVE SumInserted(_)
SumInserted(cs) ==
    IF cs = <<>> THEN 0
    ELSE (IF Head(cs).result = "ok" THEN Head(cs).n ELSE 0)
         + SumInserted(Tail(cs))

\* C24: when the bulk insert raises, the prepared records are inserted in
\* consecutive batches of at most 50 that partition them in order; every
\* batch is attempted once, also after a batch that failed, and the count
\* returned is the sum over the batches that succeeded, never more than
\* the number of prepared records.
C24_FallbackBatchesPartition ==
    LET ins == InsertsOf(calls)
        N == Len(bulk_records)
    IN  (Len(ins) >= 1 /\ ins[1].result = "raised") =>
           LET fb == Tail(ins)
           IN  /\ \A t \in 1..Len(fb) :
                     /\ fb[t].first = bulk_records[50 * (t - 1) + 1].receipt
                     /\ fb[t].last =
                           bulk_records[IF 50 * t < N THEN 50 * t ELSE N].receipt
                     /\ fb[t].n = (IF 50 * t < N THEN 50 * t ELSE N) - 50 * (t - 1)
                     /\ fb[t].n >= 1 /\ fb[t].n <= 50
               /\ 50 * (Len(fb) - 1) < N
               /\ pc \in {"load_returned", "done", "failed"} =>
                     /\ 50 * Len(fb) >= N
                     /\ total_inserted = SumInserted(fb)
                     /\ total_inserted <= N
               /\ pc = "load_returned" => ret = total_inserted

\* three batches for 101 records: the second failed, the first and the
\* third went in, and 51 is returned
C24_Witness ==
    /\ pc = "load_returned"
    /\ Len(bulk_records) = 2 * batch_size + 1
    /\ LET ins == InsertsOf(calls)
       IN  /\ Len(ins) = 4
           /\ ins[1].result = "raised"
           /\ ins[2].result = "ok"
           /\ ins[3].result = "raised"
           /\ ins[4].result = "ok" /\ ins[4].n = 1
    /\ ret = batch_size + 1

(***************************************************************************)
(* Claims about the chunks of a historical run.                            *)
(***************************************************************************)
HasCall(k, op, result) ==
    \E j \in ChunkCalls(k) : calls[j].op = op /\ calls[j].result = result

DeleteRaised(k) ==
    \/ HasCall(k, "truncate_staging", "raised")
    \/ HasCall(k, "truncate_final", "raised")

\* C25: when a delete call of a chunk's load raises, no insert and no
\* promote is attempted for that chunk and the chunk is recorded as
\* failed; when the promote raises, the chunk is recorded as failed and
\* adds nothing to total_records_processed; the run goes on to the next
\* chunk in both cases.
C25_DeleteOrPromoteFailureEndsChunk ==
    /\ \A k \in 1..ChunksFetched :
          /\ DeleteRaised(k) =>
                \A j \in ChunkCalls(k) : calls[j].op \notin {"insert", "promote"}
          /\ (DeleteRaised(k) \/ HasCall(k, "promote", "raised")) =>
                /\ Len(overall_results.chunk_results) < k => pc # "chunk_ok"
                /\ Len(overall_results.chunk_results) >= k =>
                      ~overall_results.chunk_results[k].success
    /\ pc \in {"fetch", "cleanup", "update", "hist_returned"} =>
          /\ Len(overall_results.chunk_results) = ChunksFetched
          /\ overall_results.total_records_processed =
                SumProcessed(overall_results.chunk_results)
    /\ LoopOver => ChunksFetched = Len(monthly_chunks)

\* the final-table delete of the first chunk raised, the run went on, and
\* the promote of the second chunk raised
C25_Witness ==
    /\ pc = "hist_returned"
    /\ Len(monthly_chunks) = 2
    /\ HasCall(1, "truncate_final", "raised")
    /\ HasCall(2, "promote", "raised")
    /\ overall_results.total_records_processed = 0
    /\ Len(overall_results.errors) = 2

\* the scrape call just made, when the step made one
NewScrape ==
    /\ Len(calls') = Len(calls) + 1
    /\ calls'[Len(calls')].op = "scrape"

\* C26: when the fetch of a chunk returns no records, the chunk is
\* recorded as successful with records_scraped = 0 and records_processed
\* = 0, no delete, insert or promote call is made for it (the staging and
\* final tables keep their rows), and the run goes on with the next chunk.
C26_EmptyChunkIsSkipped ==
    [][(/\ pc = "fetch"
        /\ NewScrape
        /\ calls'[Len(calls')].result # "raised"
        /\ calls'[Len(calls')].rows = 0) =>
          /\ staging' = staging /\ final' = final
          /\ Len(overall_results'.chunk_results) = chunk_i
          /\ overall_results'.chunk_results[chunk_i].success
          /\ overall_results'.chunk_results[chunk_i].records_scraped = 0
          /\ overall_results'.chunk_results[chunk_i].records_processed = 0
          /\ overall_results'.total_records_processed =
                overall_results.total_records_processed
          /\ overall_results'.success = overall_results.success
          /\ pc' = IF chunk_i < Len(monthly_chunks) THEN "fetch" ELSE "cleanup"
          /\ chunk_i' = chunk_i + 1]_vars

\* the first chunk had no data, the old rows of its span are still in
\* both tables, and the second chunk was loaded and promoted
C26_Witness ==
    /\ pc = "hist_returned"
    /\ Len(monthly_chunks) = 2
    /\ overall_results.chunk_results[1].success
    /\ overall_results.chunk_results[1].records_scraped = 0
    /\ ChunkCalls(1) = {1}
    /\ calls[1].result = "ok"
    /\ \E row \in staging \cap final :
          row.import_batch_id = "old" /\ row.date = IsoDate(RunStart)
    /\ HasCall(2, "promote", "ok")
    /\ overall_results.success

\* C29: in the chunk loop chunks_processed + len(errors) =
\* len(chunk_results) <= total_chunks, the i-th chunk result has
\* chunk_index i and the dates of the i-th chunk, success is false exactly
\* when errors is not empty, and at the end of the loop len(chunk_results)
\* = total_chunks.
C29_LoopBookkeeping ==
    pc \notin {"hist", "hist_raised"} =>
        LET R == overall_results.chunk_results
        IN  /\ overall_results.total_chunks = Len(monthly_chunks)
            /\ overall_results.chunks_processed + Len(overall_results.errors)
                  = Len(R)
            /\ Len(R) <= overall_results.total_chunks
            /\ \A i \in 1..Len(R) :
                  /\ R[i].chunk_index = i
                  /\ R[i].start_date = monthly_chunks[i][1]
                  /\ R[i].end_date = monthly_chunks[i][2]
            /\ ~overall_results.success <=> overall_results.errors # <<>>
            /\ LoopOver => Len(R) = overall_results.total_chunks

\* a run of two chunks, one recorded as processed and one as failed
C29_Witness ==
    /\ pc = "cleanup"
    /\ overall_results.total_chunks = 2
    /\ overall_results.chunks_processed = 1
    /\ Len(overall_results.errors) = 1
    /\ overall_results.chunk_results[1].success
    /\ ~overall_results.chunk_results[2].success

(***************************************************************************)
(* Claims about repeated application.                                      *)
(***************************************************************************)
\* the rows of the final table that came from a record of the frame
CopiesInFinal(record) ==
    {row \in final : /\ row.import_batch_id # "old"
                     /\ row.date = record.date
                     /\ row.receipt = record.receipt}

\* C28: load and promote run twice in succession with the same records,
\* each run under its own batch id, leave the final table with the rows
\* one run leaves: each record once, no row twice.
C28_LoadTwiceSameAsOnce ==
    (/\ pc = "done"
     /\ batch_id = "batch2"
     /\ \A j \in 1..Len(calls) : calls[j].result = "ok") =>
        /\ \A k \in 1..Len(bulk_records) :
              Cardinality(CopiesInFinal(bulk_records[k])) = 1
        /\ Cardinality({row \in final : row.import_batch_id # "old"})
              = Len(bulk_records)

\* C30: validate_date_range applied to its own output, with the same
\* today, returns the same start and end and no warning.
C30_ValidateIdempotent ==
    Validated =>
        LET again == validate_date_range(vResult.start, vResult.end, vToday)
        IN  /\ again.start = vResult.start
            /\ again.end = vResult.end
            /\ again.warnings = <<>>

(***************************************************************************)
(* C27: runs that overlap in time.                                         *)
(***************************************************************************)
\* the calls of the load of one batch, by position
CallsBy(batch) == {j \in 1..Len(calls) : calls[j].by = batch}

\* the run taking steps has finished, and none of its calls failed
RunDoneWithoutFailure ==
    /\ pc = "done"
    /\ \A j \in CallsBy(batch_id) : calls[j].result = "ok"

\* a staging delete of another run fell between the insert and the promote
\* of the run taking steps
DeletedInBetween ==
    \E i, j, k \in 1..Len(calls) :
        /\ i < j /\ j < k
        /\ calls[i].op = "insert" /\ calls[i].by = batch_id
        /\ calls[j].op = "truncate_staging" /\ calls[j].by # batch_id
        /\ calls[j].result = "ok"
        /\ calls[k].op = "promote" /\ calls[k].by = batch_id

\* C27: no step of a run waits for another run, and the one way a run whose
\* calls all succeed promotes fewer rows than it inserted is that the staging
\* delete of the other run came between its insert and its promote (never
\* more rows than it inserted)
C27_RunsInterleaveAndLoseRows ==
    RunDoneWithoutFailure =>
        /\ ret <= total_inserted
        /\ ret < total_inserted => DeletedInBetween

\* the first run inserted two rows, the second run deleted staging rows of
\* an overlapping span before the first promoted, and the first promoted
\* fewer rows than it inserted
C27_Witness ==
    /\ RunDoneWithoutFailure
    /\ batch_id = "batch"
    /\ total_inserted = 2
    /\ ret < total_inserted
    /\ DeletedInBetween
    /\ other.pc # "load"
    /\ DateLE(start_date, other.end_date)
    /\ DateLE(other.start_date, end_date)

====
